---- MODULE Spec2Model ----
(***************************************************************************)
(* Resource synchronisation of demo-mcp: the patched ResourceManager       *)
(* (add_resource / remove_resource), the session and subscriber tracking   *)
(* of resource_folder.py, the asyncio notification tasks it creates, and   *)
(* the folder watcher that polls a directory.                              *)
(***************************************************************************)
EXTENDS Integers, Sequences, FiniteSets

VARIABLES
    dir,          \* the watched directory: file name -> st_mtime, 0 = no such file
    dir_ok,       \* whether the watched directory can be enumerated
    resources,    \* ResourceManager._resources: str(uri) -> content provider
    subscribers,  \* subscribers: defaultdict(set), str(uri) -> set of sessions
    all_sessions, \* all_sessions: set of sessions
    last_snap,    \* watch_resources' last_snap: file name -> st_mtime, 0 = not in it
    pc,           \* the startup hook and the watcher task: boot, launched, sleeping, dead
    pending,      \* asyncio tasks created and not yet finished: task -> how many
    listed,       \* history: the sessions that have issued a resources/list request
    relisted,     \* history: the sessions that have issued more than one
    last,         \* history: the step taken last, its case and the tasks it created
    world         \* the sessions that connect and the file names that occur in this run

vars == <<dir, dir_ok, resources, subscribers, all_sessions, last_snap, pc, pending, listed, relisted, last, world>>

(***************************************************************************)
(* Bounds and input sets.                                                  *)
(***************************************************************************)

\* At most this many notification tasks are created and unfinished at once.
MaxPending == 2

Sessions == {"s1", "s2"}

\* A file name is a sequence of characters; the second one holds a space.
FileA == <<"a">>

FileB == <<"b", " ", "c">>

Files == {FileA, FileB}

Mtimes == {1, 2}

\* A run has two sessions and one file name, or one session and two file names.
Worlds ==
    {[clients |-> Sessions, names |-> {f}] : f \in Files}
        \cup {[clients |-> {s}, names |-> Files] : s \in {"s1"}}

(***************************************************************************)
(* URIs. A URI is a sequence of characters after the directory prefix.     *)
(***************************************************************************)

\* f"file://{f.resolve()}": the URI string the watcher and the startup hook build.
RawUri(f) == <<"file:///watch/">> \o f

\* str(AnyUrl(u)): the URL is parsed and serialised, which percent-encodes a
\* space of the path; every other character of these names is kept.
RECURSIVE AnyUrlStr(_)
AnyUrlStr(u) ==
    IF u = <<>> THEN <<>>
    ELSE (IF Head(u) = " " THEN <<"%", "2", "0">> ELSE <<Head(u)>>) \o AnyUrlStr(Tail(u))

\* The resource of server.py registered before the patches are installed.
LogUri == <<"file:///logs/app.log">>

RawUris == {RawUri(f) : f \in Files}

\* The URI strings a client may send for file f: as the watcher builds it, or as
\* the list response gives it.
ClientUris(fs) == {RawUri(f) : f \in fs} \cup {AnyUrlStr(RawUri(f)) : f \in fs}

(***************************************************************************)
(* Notification tasks: asyncio.create_task(sess.send_...()).               *)
(***************************************************************************)

TaskKeys ==
    {<<s, "list_changed", <<>>>> : s \in Sessions}
        \cup {<<s, "updated", u>> : s \in Sessions, u \in RawUris}

EmptyBatch == [t \in TaskKeys |-> 0]

Plus(b1, b2) == [t \in TaskKeys |-> b1[t] + b2[t]]

RECURSIVE SumOver(_, _)
SumOver(b, ts) ==
    IF ts = {} THEN 0
    ELSE LET t == CHOOSE x \in ts : TRUE IN b[t] + SumOver(b, ts \ {t})

Size(b) == SumOver(b, TaskKeys)

\* for sess in list(sessions): create_task(sess.send_resource_list_changed())
ListChangedBatch(sessions) ==
    [t \in TaskKeys |-> IF t[2] = "list_changed" /\ t[1] \in sessions THEN 1 ELSE 0]

\* for sess in sessions: create_task(sess.send_resource_updated(uri))
UpdatedBatch(uri, sessions) ==
    [t \in TaskKeys |-> IF t[2] = "updated" /\ t[3] = uri /\ t[1] \in sessions THEN 1 ELSE 0]

Fits(b) == Size(pending) + Size(b) <= MaxPending

(***************************************************************************)
(* Dictionaries.                                                           *)
(***************************************************************************)

\* d.get(k, []) of a dict of sets
Get(d, k) == IF k \in DOMAIN d THEN d[k] ELSE {}

\* d.pop(k, None), and "if k in d: del d[k]"
DelKey(d, k) == [x \in DOMAIN d \ {k} |-> d[x]]

\* d[k] = v
SetKey(d, k, v) == [x \in DOMAIN d \cup {k} |-> IF x = k THEN v ELSE d[x]]

(***************************************************************************)
(* The patched ResourceManager, one operator per statement group.          *)
(***************************************************************************)

\* str(resource.uri) of FunctionResource(uri=AnyUrl(uri), ...) built for file f
ResourceKey(f) == AnyUrlStr(RawUri(f))

\* Mutant of orig_add: the resource is stored under the uri string as built.
orig_add_rawkey(res, f) == SetKey(res, RawUri(f), f)

\* orig_add(self, resource): the resource is stored under str(resource.uri); its
\* content provider reads file f, and a resource already stored under that key
\* reads the same file.
orig_add(res, f) == SetKey(res, ResourceKey(f), f)

\* Mutant of add_tasks: no broadcast when the uri is registered already.
add_tasks_if_new(res, f, sessions) ==
    IF ResourceKey(f) \in DOMAIN res THEN EmptyBatch ELSE ListChangedBatch(sessions)

\* add_resource: the tasks it creates
add_tasks(res, f, sessions) == ListChangedBatch(sessions)

\* remove_resource: uri_str = str(uri); if uri_str in self._resources: del ...
remove_registry(res, u) == DelKey(res, u)

\* remove_resource: the tasks it creates
remove_tasks(res, u, sessions) == ListChangedBatch(sessions)

\* Mutant of remove_subscribers: the subscriber map is left alone.
remove_subscribers_none(subs, u) == subs

\* remove_resource: subscribers.pop(uri_str, None)
remove_subscribers(subs, u) == DelKey(subs, u)

\* The state a synchronous run of calls threads through: the registry, the
\* subscriber map and the tasks created so far.
DoAdd(st, f) ==
    [res   |-> orig_add(st.res, f),
     subs  |-> st.subs,
     sched |-> Plus(st.sched, add_tasks(st.res, f, all_sessions))]

DoRemove(st, u) ==
    [res   |-> remove_registry(st.res, u),
     subs  |-> remove_subscribers(st.subs, u),
     sched |-> Plus(st.sched, remove_tasks(st.res, u, all_sessions))]

\* Mutant of DoModified: every subscriber of any uri is notified.
DoModified_all(st, f) ==
    [st EXCEPT !.sched =
        Plus(@, UpdatedBatch(RawUri(f), UNION {st.subs[k] : k \in DOMAIN st.subs}))]

\* Mutant of DoModified: a Modified file is registered again, as a New one is.
DoModified_readds(st, f) ==
    [res   |-> orig_add(st.res, f),
     subs  |-> st.subs,
     sched |-> Plus(Plus(st.sched, add_tasks(st.res, f, all_sessions)),
                    UpdatedBatch(RawUri(f), Get(st.subs, RawUri(f))))]

\* elif last_snap[f] != mtime: for sess in subscribers.get(key, []): create_task(...)
DoModified(st, f) ==
    [st EXCEPT !.sched = Plus(@, UpdatedBatch(RawUri(f), Get(st.subs, RawUri(f))))]

Start == [res |-> resources, subs |-> subscribers, sched |-> EmptyBatch]

(***************************************************************************)
(* The history record.                                                     *)
(***************************************************************************)

\* op: the step; sess: the session of a send; present: whether the session of a
\* subscribe or unsubscribe was subscribed already; new, mod, del: the files a
\* watcher cycle found New, Modified and Removed; readded: the New files whose key
\* the registry held already; absent: the Removed files whose uri the registry did
\* not hold; dropped: the sessions whose subscriptions the cycle's removals popped;
\* sched: the tasks the step created.
NoCall ==
    [op |-> "none", sess |-> "", present |-> FALSE,
     new |-> {}, mod |-> {}, del |-> {},
     readded |-> {}, absent |-> {}, dropped |-> {}, sched |-> EmptyBatch]

Call(op) == [NoCall EXCEPT !.op = op]

\* The server takes requests once the startup hook has returned.
Serving == pc \in {"launched", "sleeping", "dead"}

Init ==
    /\ world \in Worlds
    /\ dir \in {d \in [Files -> {0} \cup Mtimes] : \A f \in Files \ world.names : d[f] = 0}
    /\ dir_ok = TRUE
    /\ resources = [k \in {LogUri} |-> <<"read_log">>]
    /\ subscribers = [k \in {} |-> {}]
    /\ all_sessions = {}
    /\ last_snap = [f \in Files |-> 0]
    /\ pc = "boot"
    /\ pending = EmptyBatch
    /\ listed = {}
    /\ relisted = {}
    /\ last = NoCall

(***************************************************************************)
(* Request handlers.                                                       *)
(***************************************************************************)

\* Mutant of tracked_list: a session is tracked once per request, and the second
\* request of a session finds it and drops it.
tracked_list_toggles(s) ==
    /\ Serving
    /\ s \in world.clients
    /\ all_sessions' = IF s \in all_sessions THEN all_sessions \ {s} ELSE all_sessions \cup {s}
    /\ listed' = listed \cup {s}
    /\ relisted' = relisted \cup ({s} \cap listed)
    /\ last' = Call("list")
    /\ UNCHANGED <<dir, dir_ok, resources, subscribers, last_snap, pc, pending, world>>

\* _tracked_list(req), called by session s
tracked_list(s) ==
    /\ Serving
    /\ s \in world.clients
    /\ all_sessions' = all_sessions \cup {s}
    /\ listed' = listed \cup {s}
    /\ relisted' = relisted \cup ({s} \cap listed)
    /\ last' = Call("list")
    /\ UNCHANGED <<dir, dir_ok, resources, subscribers, last_snap, pc, pending, world>>

\* Mutant of on_subscribe: the subscribing session is tracked as well.
on_subscribe_tracks(u, s) ==
    /\ Serving
    /\ s \in world.clients
    /\ u \in ClientUris(world.names)
    /\ LET key == AnyUrlStr(u) IN
        /\ subscribers' = SetKey(subscribers, key, Get(subscribers, key) \cup {s})
        /\ last' = [Call("subscribe") EXCEPT !.present = s \in Get(subscribers, key)]
    /\ all_sessions' = all_sessions \cup {s}
    /\ UNCHANGED <<dir, dir_ok, resources, last_snap, pc, pending, listed, relisted, world>>

\* _on_subscribe(uri), called by session s: subscribers[str(uri)].add(sess)
on_subscribe(u, s) ==
    /\ Serving
    /\ s \in world.clients
    /\ u \in ClientUris(world.names)
    /\ LET key == AnyUrlStr(u) IN
        /\ subscribers' = SetKey(subscribers, key, Get(subscribers, key) \cup {s})
        /\ last' = [Call("subscribe") EXCEPT !.present = s \in Get(subscribers, key)]
    /\ UNCHANGED <<dir, dir_ok, resources, all_sessions, last_snap, pc, pending, listed, relisted, world>>

\* Mutant of on_unsubscribe: the whole entry of the uri is popped.
on_unsubscribe_pops(u, s) ==
    /\ Serving
    /\ s \in world.clients
    /\ u \in ClientUris(world.names)
    /\ LET key == AnyUrlStr(u) IN
        /\ subscribers' = DelKey(subscribers, key)
        /\ last' = [Call("unsubscribe") EXCEPT !.present = s \in Get(subscribers, key)]
    /\ UNCHANGED <<dir, dir_ok, resources, all_sessions, last_snap, pc, pending, listed, relisted, world>>

\* _on_unsubscribe(uri), called by session s: subscribers[str(uri)].discard(sess)
on_unsubscribe(u, s) ==
    /\ Serving
    /\ s \in world.clients
    /\ u \in ClientUris(world.names)
    /\ LET key == AnyUrlStr(u) IN
        /\ subscribers' = SetKey(subscribers, key, Get(subscribers, key) \ {s})
        /\ last' = [Call("unsubscribe") EXCEPT !.present = s \in Get(subscribers, key)]
    /\ UNCHANGED <<dir, dir_ok, resources, all_sessions, last_snap, pc, pending, listed, relisted, world>>

(***************************************************************************)
(* The folder watcher.                                                     *)
(***************************************************************************)

\* {f: f.stat().st_mtime for f in watch_dir_path.iterdir() if f.is_file()}
Enumerate == dir

InSnap(snap) == {f \in Files : snap[f] # 0}

\* for f, mtime in current.items(): the New and the Modified branch
RECURSIVE HandleCurrent(_, _, _, _)
HandleCurrent(st, fs, snap, current) ==
    IF fs = {} THEN st
    ELSE LET f == CHOOSE x \in fs : TRUE
             nx == IF f \notin InSnap(snap) THEN DoAdd(st, f)
                   ELSE IF snap[f] # current[f] THEN DoModified(st, f)
                   ELSE st
         IN HandleCurrent(nx, fs \ {f}, snap, current)

\* for f in set(last_snap) - set(current): remove_resource(f"file://{f.resolve()}")
RECURSIVE HandleDeleted(_, _)
HandleDeleted(st, fs) ==
    IF fs = {} THEN st
    ELSE LET f == CHOOSE x \in fs : TRUE
         IN HandleDeleted(DoRemove(st, RawUri(f)), fs \ {f})

\* One pass of the body of "while True" after the sleep.
Cycle(snap, current) ==
    HandleDeleted(HandleCurrent(Start, InSnap(current), snap, current),
                  InSnap(snap) \ InSnap(current))

\* _start_watcher: register the existing files, then create the watcher task
start_watcher ==
    /\ pc = "boot"
    /\ dir_ok
    /\ LET current == Enumerate
           st == HandleCurrent(Start, InSnap(current), [f \in Files |-> 0], current)
       IN
        /\ Fits(st.sched)
        /\ resources' = st.res
        /\ pending' = Plus(pending, st.sched)
        /\ last' = [Call("startup") EXCEPT
                        !.new = InSnap(current), !.sched = st.sched]
    /\ pc' = "launched"
    /\ UNCHANGED <<dir, dir_ok, subscribers, all_sessions, last_snap, listed, relisted, world>>

\* _start_watcher when Path(watch_dir).iterdir() raises: startup fails
start_watcher_fails ==
    /\ pc = "boot"
    /\ ~dir_ok
    /\ pc' = "exited"
    /\ last' = Call("startup_failed")
    /\ UNCHANGED <<dir, dir_ok, resources, subscribers, all_sessions, last_snap, pending, listed, relisted, world>>

\* watch_resources, up to its first sleep: last_snap = {...}
watch_start ==
    /\ pc = "launched"
    /\ dir_ok
    /\ last_snap' = Enumerate
    /\ pc' = "sleeping"
    /\ last' = Call("watch_start")
    /\ UNCHANGED <<dir, dir_ok, resources, subscribers, all_sessions, pending, listed, relisted, world>>

\* Mutant of watch_poll: the snapshot is updated entry by entry and keeps the
\* entries of the files that are gone.
watch_poll_merges ==
    /\ pc \in {"sleeping", "stopping"}
    /\ dir_ok
    /\ LET current == Enumerate
           st == Cycle(last_snap, current)
       IN
        /\ Fits(st.sched)
        /\ resources' = st.res
        /\ subscribers' = st.subs
        /\ pending' = Plus(pending, st.sched)
        /\ last_snap' = [f \in Files |-> IF current[f] # 0 THEN current[f] ELSE last_snap[f]]
        /\ last' = [Call("poll") EXCEPT
                        !.new = InSnap(current) \ InSnap(last_snap),
                        !.mod = {f \in InSnap(current) \cap InSnap(last_snap) :
                                    last_snap[f] # current[f]},
                        !.del = InSnap(last_snap) \ InSnap(current),
                        !.readded = {f \in InSnap(current) \ InSnap(last_snap) :
                                        ResourceKey(f) \in DOMAIN resources},
                        !.absent = {f \in InSnap(last_snap) \ InSnap(current) :
                                        RawUri(f) \notin DOMAIN resources},
                        !.dropped = UNION {Get(subscribers, RawUri(f)) :
                                            f \in InSnap(last_snap) \ InSnap(current)},
                        !.sched = st.sched]
    /\ UNCHANGED <<dir, dir_ok, all_sessions, pc, listed, relisted, world>>

\* watch_resources, from the end of a sleep to the next one
watch_poll ==
    /\ pc \in {"sleeping", "stopping"}
    /\ dir_ok
    /\ LET current == Enumerate
           st == Cycle(last_snap, current)
       IN
        /\ Fits(st.sched)
        /\ resources' = st.res
        /\ subscribers' = st.subs
        /\ pending' = Plus(pending, st.sched)
        /\ last_snap' = current
        /\ last' = [Call("poll") EXCEPT
                        !.new = InSnap(current) \ InSnap(last_snap),
                        !.mod = {f \in InSnap(current) \cap InSnap(last_snap) :
                                    last_snap[f] # current[f]},
                        !.del = InSnap(last_snap) \ InSnap(current),
                        !.readded = {f \in InSnap(current) \ InSnap(last_snap) :
                                        ResourceKey(f) \in DOMAIN resources},
                        !.absent = {f \in InSnap(last_snap) \ InSnap(current) :
                                        RawUri(f) \notin DOMAIN resources},
                        !.dropped = UNION {Get(subscribers, RawUri(f)) :
                                            f \in InSnap(last_snap) \ InSnap(current)},
                        !.sched = st.sched]
    /\ UNCHANGED <<dir, dir_ok, all_sessions, pc, listed, relisted, world>>

\* watch_resources when iterdir() raises: the exception ends the task
watch_fails ==
    /\ pc \in {"launched", "sleeping", "stopping"}
    /\ ~dir_ok
    /\ pc' = "dead"
    /\ last' = Call("watch_failed")
    /\ UNCHANGED <<dir, dir_ok, resources, subscribers, all_sessions, last_snap, pending, listed, relisted, world>>

(***************************************************************************)
(* The notification tasks, run by the event loop.                          *)
(***************************************************************************)

Minus(b, t) == [b EXCEPT ![t] = @ - 1]

\* the task's send returns
send_done(t) ==
    /\ pending[t] > 0
    /\ pending' = Minus(pending, t)
    /\ last' = [Call("sent") EXCEPT !.sess = t[1]]
    /\ UNCHANGED <<dir, dir_ok, resources, subscribers, all_sessions, last_snap, pc, listed, relisted, world>>

\* Mutant of send_fails: the deliveries run one after another in one task, and a
\* failure ends them all.
send_fails_aborts(t) ==
    /\ pending[t] > 0
    /\ pending' = EmptyBatch
    /\ last' = [Call("send_failed") EXCEPT !.sess = t[1]]
    /\ UNCHANGED <<dir, dir_ok, resources, subscribers, all_sessions, last_snap, pc, listed, relisted, world>>

\* Mutant of send_fails: the send is awaited by the watcher, which the exception ends.
send_fails_propagates(t) ==
    /\ pending[t] > 0
    /\ pending' = Minus(pending, t)
    /\ last' = [Call("send_failed") EXCEPT !.sess = t[1]]
    /\ pc' = IF pc = "sleeping" THEN "dead" ELSE pc
    /\ UNCHANGED <<dir, dir_ok, resources, subscribers, all_sessions, last_snap, listed, relisted, world>>

\* the task's send raises: the exception stays in the task, which nothing awaits
send_fails(t) ==
    /\ pending[t] > 0
    /\ pending' = Minus(pending, t)
    /\ last' = [Call("send_failed") EXCEPT !.sess = t[1]]
    /\ UNCHANGED <<dir, dir_ok, resources, subscribers, all_sessions, last_snap, pc, listed, relisted, world>>

(***************************************************************************)
(* The file system, changed from outside.                                  *)
(***************************************************************************)

fs_create(f, m) ==
    /\ dir_ok
    /\ f \in world.names
    /\ dir[f] = 0
    /\ dir' = [dir EXCEPT ![f] = m]
    /\ last' = Call("fs")
    /\ UNCHANGED <<dir_ok, resources, subscribers, all_sessions, last_snap, pc, pending, listed, relisted, world>>

fs_touch(f, m) ==
    /\ dir[f] # 0
    /\ dir[f] # m
    /\ dir' = [dir EXCEPT ![f] = m]
    /\ last' = Call("fs")
    /\ UNCHANGED <<dir_ok, resources, subscribers, all_sessions, last_snap, pc, pending, listed, relisted, world>>

fs_delete(f) ==
    /\ dir[f] # 0
    /\ dir' = [dir EXCEPT ![f] = 0]
    /\ last' = Call("fs")
    /\ UNCHANGED <<dir_ok, resources, subscribers, all_sessions, last_snap, pc, pending, listed, relisted, world>>

fs_rmdir ==
    /\ dir_ok
    /\ dir_ok' = FALSE
    /\ dir' = [f \in Files |-> 0]
    /\ last' = Call("fs")
    /\ UNCHANGED <<resources, subscribers, all_sessions, last_snap, pc, pending, listed, relisted, world>>

Next ==
    \/ start_watcher
    \/ start_watcher_fails
    \/ watch_start
    \/ watch_poll
    \/ watch_fails
    \/ \E s \in Sessions : tracked_list(s)
    \/ \E u \in ClientUris(Files), s \in Sessions : on_subscribe(u, s)
    \/ \E u \in ClientUris(Files), s \in Sessions : on_unsubscribe(u, s)
    \/ \E t \in TaskKeys : send_done(t)
    \/ \E t \in TaskKeys : send_fails(t)
    \/ \E f \in Files, m \in Mtimes : fs_create(f, m)
    \/ \E f \in Files, m \in Mtimes : fs_touch(f, m)
    \/ \E f \in Files : fs_delete(f)
    \/ fs_rmdir

Spec == Init /\ [][Next]_vars

(***************************************************************************)
(* Shutdown. uvicorn.run handles the interrupt: the server stops accepting *)
(* requests and closes down, and when its loop is closed the tasks still   *)
(* pending are cancelled. The watcher has no flag or event of its own and  *)
(* _start_watcher keeps no handle of its task, so the watcher learns of    *)
(* the shutdown from that cancellation alone; "stopping" is the watcher    *)
(* in its loop between the two.                                            *)
(***************************************************************************)

\* the interrupt arrives while the watcher sleeps
raise_shutdown ==
    /\ pc = "sleeping"
    /\ pc' = "stopping"
    /\ last' = Call("shutdown")
    /\ UNCHANGED <<dir, dir_ok, resources, subscribers, all_sessions, last_snap, pending, listed, relisted, world>>

\* the loop is closed: the sleep of the watcher is cancelled and the pending
\* sends with it
loop_closed ==
    /\ pc = "stopping"
    /\ pc' = "exited"
    /\ pending' = EmptyBatch
    /\ last' = Call("closed")
    /\ UNCHANGED <<dir, dir_ok, resources, subscribers, all_sessions, last_snap, listed, relisted, world>>

StopNext ==
    \/ Next
    \/ raise_shutdown
    \/ loop_closed

StopSpec == Init /\ [][StopNext]_vars

\* The event loop runs the watcher task whenever it can run; a send may never return.
FairSpec == Spec /\ WF_vars(watch_start) /\ WF_vars(watch_poll) /\ WF_vars(watch_fails)

LC(s) == <<s, "list_changed", <<>>>>

UP(s, u) == <<s, "updated", u>>

(***************************************************************************)
(* Claims.                                                                 *)
(***************************************************************************)

ListChangedCount(b) == SumOver(b, {LC(s) : s \in Sessions})

Subscribed(subs, s) == {k \in DOMAIN subs : s \in subs[k]}

\* C1: a Remove(uri) whose uri is absent from the registry schedules no
\* list-changed notification: a watcher cycle whose only calls are removals of
\* uris the registry does not hold creates no list-changed task.
C1_NoNotifyOnAbsentRemove ==
    (last.op = "poll" /\ last.new = {} /\ last.del # {} /\ last.absent = last.del)
        => ListChangedCount(last.sched) = 0

\* C2: every Add, also one whose uri is registered already, schedules exactly one
\* list-changed signal for each tracked session and none for any other, and the
\* registry holds the resource of that uri: a cycle that finds n New files and no
\* Removed file creates n list-changed tasks per tracked session.
C2_AddBroadcastsOnce ==
    (last.op = "poll" /\ last.del = {})
        => /\ \A s \in Sessions :
                last.sched[LC(s)] = IF s \in all_sessions THEN Cardinality(last.new) ELSE 0
           /\ \A f \in last.new :
                ResourceKey(f) \in DOMAIN resources /\ resources[ResourceKey(f)] = f

C2_Witness ==
    /\ last.op = "poll"
    /\ last.del = {}
    /\ last.readded # {}
    /\ all_sessions # {}

\* C3: every pending delivery can complete whatever the other deliveries do, and
\* a delivery that fails, or one that returns, ends that one task and leaves
\* every other task (other sessions' deliveries of the same or another batch)
\* pending as it was.
C3_Isolation ==
    [][/\ \A t \in TaskKeys : pending[t] > 0 => ENABLED send_done(t)
       /\ last'.op \in {"sent", "send_failed"}
            => \E t \in TaskKeys :
                /\ t[1] = last'.sess
                /\ pending[t] > 0
                /\ pending' = Minus(pending, t)]_vars

C3_Witness ==
    /\ last.op = "send_failed"
    /\ last.sess = "s1"
    /\ pending[LC("s2")] = 1

\* C4: a watcher cycle schedules a resource-updated notification for uri B only
\* for a file it found Modified whose uri is B, and only to sessions that are in
\* B's subscriber set when the cycle runs.
C4_SubscriptionScoping ==
    [][last'.op = "poll"
        => \A t \in TaskKeys :
            (t[2] = "updated" /\ last'.sched[t] > 0)
                => /\ t[1] \in Get(subscribers, t[3])
                   /\ \E f \in last'.mod : t[3] = RawUri(f)]_vars

C4_Witness ==
    /\ last.op = "poll"
    /\ FileA \in last.mod
    /\ "s1" \in Get(subscribers, ResourceKey(FileB))
    /\ "s1" \notin Get(subscribers, RawUri(FileA))
    /\ last.sched[UP("s1", RawUri(FileA))] = 0

C6_MutationsIgnoreDelivery ==
    [][last'.op \in {"sent", "send_failed"}
        => UNCHANGED <<resources, subscribers, all_sessions, last_snap, pc>>]_vars

C6_Witness ==
    /\ last.op = "send_failed"
    /\ pc = "sleeping"
    /\ Cardinality(DOMAIN resources) > 1

\* C7: a session to which a delivery has failed is eventually removed from
\* all_sessions and from every subscriber set.
C7_PruneOnFailure ==
    \A s \in Sessions :
        (last.op = "send_failed" /\ last.sess = s)
            ~> (s \notin all_sessions /\ Subscribed(subscribers, s) = {})

\* C8: the tracked sessions are exactly those that have issued a list request; no
\* list-changed task exists for a session that has not; and a cycle that adds a
\* file or removes a registered one creates a list-changed task for every session
\* that has.
C8_ListIsOptIn ==
    /\ all_sessions = listed
    /\ \A s \in Sessions \ listed : pending[LC(s)] = 0 /\ last.sched[LC(s)] = 0
    /\ (last.op = "poll" /\ (last.new # {} \/ last.del # last.absent))
            => \A s \in listed : last.sched[LC(s)] >= 1

C8_Witness ==
    /\ last.op = "poll"
    /\ last.new # {}
    /\ listed = {"s1"}
    /\ Subscribed(subscribers, "s2") # {}
    /\ last.sched[LC("s1")] = 1

\* C9: a cycle that finds exactly one New file and nothing else adds that file's
\* resource to the registry, keeps every resource registered before, and creates
\* exactly one list-changed task for each tracked session and no other task.
C9_NewFileDetected ==
    [][(last'.op = "poll" /\ Cardinality(last'.new) = 1
            /\ last'.mod = {} /\ last'.del = {})
        => /\ \A f \in last'.new :
                /\ DOMAIN resources' = DOMAIN resources \cup {ResourceKey(f)}
                /\ resources'[ResourceKey(f)] = f
           /\ \A k \in DOMAIN resources : resources'[k] = resources[k]
           /\ last'.sched = ListChangedBatch(all_sessions)
           /\ pending' = Plus(pending, last'.sched)]_vars

C9_Witness ==
    /\ last.op = "poll"
    /\ last.new = {FileB}
    /\ last.mod = {}
    /\ last.del = {}
    /\ ResourceKey(FileA) \in DOMAIN resources
    /\ ResourceKey(FileB) \in DOMAIN resources
    /\ last.sched[LC("s1")] = 1

\* C10: a cycle that finds a file Modified creates exactly one resource-updated
\* task for each session subscribed to the uri of that file, and none for any
\* other session.
C10_ModifiedNotifiesSubscribers ==
    [][last'.op = "poll"
        => \A f \in last'.mod : \A s \in Sessions :
            last'.sched[UP(s, RawUri(f))]
                = IF s \in Get(subscribers, ResourceKey(f)) THEN 1 ELSE 0]_vars

\* C11: when the watcher takes its initial snapshot, the files of the snapshot
\* are exactly the files the startup scan has registered.
C11_ScanMatchesSnapshot ==
    last.op = "watch_start"
        => \A f \in Files : (last_snap[f] # 0) <=> (ResourceKey(f) \in DOMAIN resources)

\* C12: after a completed cycle the registry holds no resource of a file that is
\* not in the directory.
C12_DeletionDetected ==
    last.op = "poll"
        => \A f \in Files : dir[f] = 0 => ResourceKey(f) \notin DOMAIN resources

\* C13: once the enumeration has failed the watcher runs no cycle again, and the
\* failure is terminal: the server handles no request after it.
C13_EnumerationFailureFatal ==
    [][pc = "dead"
        => /\ pc' = "dead"
           /\ last'.op \notin {"watch_start", "poll"}
           /\ last'.op \notin {"list", "subscribe", "unsubscribe"}]_vars

\* C15: every uri that has an entry in subscribers has at least one session in it.
C15_NoEmptyEntries ==
    \A k \in DOMAIN subscribers : subscribers[k] # {}

\* C16: a subscribe by a session that is subscribed to the uri already, and an
\* unsubscribe by a session that is not subscribed to it, are handled (the step
\* is taken) and leave the set of interested sessions of every uri, the tracked
\* sessions and the registry as they were.
C16_IdempotentSubscription ==
    [][((last'.op = "subscribe" /\ last'.present)
            \/ (last'.op = "unsubscribe" /\ ~last'.present))
        => /\ \A k \in DOMAIN subscribers \cup DOMAIN subscribers' :
                Get(subscribers', k) = Get(subscribers, k)
           /\ all_sessions' = all_sessions
           /\ resources' = resources]_vars

C16_Witness ==
    /\ last.op = "unsubscribe"
    /\ ~last.present
    /\ \E k \in DOMAIN subscribers : subscribers[k] # {}

\* C17: a cycle leaves the resource and the subscribers of every file it finds
\* Modified as they were, under the uri as built and under the registry's key, and
\* the list-changed tasks it creates are those of its New and Removed files only.
C17_ModifiedIsFrameOnly ==
    [][last'.op = "poll"
        => /\ \A f \in last'.mod :
                /\ \A k \in {RawUri(f), ResourceKey(f)} :
                    /\ (k \in DOMAIN resources') = (k \in DOMAIN resources)
                    /\ k \in DOMAIN resources => resources'[k] = resources[k]
                    /\ Get(subscribers', k) = Get(subscribers, k)
           /\ \A s \in Sessions :
                last'.sched[LC(s)] =
                    IF s \in all_sessions
                    THEN Cardinality(last'.new) + Cardinality(last'.del)
                    ELSE 0]_vars

C17_Witness ==
    /\ last.op = "poll"
    /\ last.mod # {}
    /\ all_sessions # {}
    /\ \E f \in last.mod : ResourceKey(f) \in DOMAIN resources
    /\ ListChangedCount(last.sched) = 0

\* C18: the snapshot changes only in the watcher's own steps, and after each of
\* them (the initial snapshot and every cycle) it is the enumeration that step
\* took; a cycle starts from the sleep and ends in the sleep, in one step.
C18_NoReentrancy ==
    [][/\ last_snap' # last_snap => last'.op \in {"watch_start", "poll"}
       /\ last'.op \in {"watch_start", "poll"} => last_snap' = Enumerate
       /\ last'.op = "poll" => pc = "sleeping" /\ pc' = "sleeping"]_vars

C18_Witness ==
    /\ last.op = "poll"
    /\ last.del # {}
    /\ last.new # {}
    /\ last_snap = dir

\* C19: a session is tracked once however many list requests it has issued: the
\* tracked sessions are the sessions that have listed, and a cycle creates for
\* each of them one list-changed task per New file and per Removed file whose
\* uri was registered, and at most one per Removed file whose uri was not.
C19_TrackIdempotent ==
    /\ relisted \subseteq all_sessions
    /\ last.op = "poll"
        => \A s \in listed :
            /\ last.sched[LC(s)] >= Cardinality(last.new) + Cardinality(last.del \ last.absent)
            /\ last.sched[LC(s)] <= Cardinality(last.new) + Cardinality(last.del)

C19_Witness ==
    /\ last.op = "poll"
    /\ last.new # {}
    /\ last.del = {}
    /\ \E s \in relisted : last.sched[LC(s)] = 1

\* C14: once shutdown is signalled while the watcher sleeps, the watcher completes
\* no cycle that changes the registry or the subscriptions or creates a
\* notification task.
C14_CleanShutdown ==
    [][(pc = "stopping" /\ last'.op = "poll")
        => /\ resources' = resources
           /\ subscribers' = subscribers
           /\ last'.sched = EmptyBatch]_vars

====
